---- MODULE Spec2Model ----
(***************************************************************************)
(* Model of VMT_Columns.py: standardize_data(base_file, new_file) reshapes *)
(* the columns of the new export after those of the base export, strips    *)
(* trailing ".<digits>" from the column labels and saves the result over   *)
(* the new file.                                                            *)
(*                                                                         *)
(* A column label is a sequence of one-character strings.  A DataFrame is  *)
(* a record [index, columns, data]: the length of its row index, the       *)
(* sequence of its column labels and, per column, the sequence of its      *)
(* cells.  A cell read from the new file is <<j, r>>, the file's column j  *)
(* and row r, so that a cell of the output names where it came from; NaN   *)
(* is the missing value pandas fills in.                                   *)
(*                                                                         *)
(* pandas behaviour the code relies on, modelled as pandas defines it:     *)
(*  - pd.read_csv / pd.read_excel de-duplicate the header they parse: a    *)
(*    repeated "B" is returned as "B", "B.1", "B.2", ... (the labels that  *)
(*    the docstring of remove_column_numbering shows), skipping a label    *)
(*    the header already holds, so the labels of a frame returned by       *)
(*    read_file are pairwise distinct;                                     *)
(*  - df[key] = series aligns the series on df's index; a frame with an    *)
(*    empty index takes the index of the first non-empty value assigned;   *)
(*  - df[label] is a Series when the label is unique and a DataFrame when  *)
(*    it is repeated, and assigning a several-column DataFrame to one key  *)
(*    raises ValueError;                                                   *)
(*  - re "$" matches at the end of the string and before a final newline.  *)
(***************************************************************************)
EXTENDS Integers, Sequences, FiniteSets, TLC

VARIABLES
    pc,                  \* position of the run in standardize_data
    base_file,           \* the base file on disk: header, rows
    new_file,            \* the new file on disk: header, rows
    new_ext,             \* extension of the new_file path argument
    writes,              \* number of times the new file was written
    base_columns,        \* base_df.columns.tolist()
    base_column_counts,  \* dict label -> count
    new_df,              \* the frame read from the new file
    new_columns,         \* new_df.columns.tolist()
    new_column_counts,   \* dict label -> count
    missing_instances,   \* list of (col, required, actual)
    unique_columns,      \* base labels, first occurrences, in order
    ui,                  \* index into unique_columns of the build loop
    standardized_df,     \* the frame being built
    built_columns,       \* standardized_df.columns before remove_column_numbering
    printed,             \* the messages printed so far
    raised,              \* an exception left standardize_data
    steps,               \* the pipeline steps started so far, in order
    nm_pc,               \* position of the label-normalisation harness
    nm_name,             \* a column label
    nm_once,             \* the label normalised once
    nm_twice             \* the label normalised twice

vars == <<pc, base_file, new_file, new_ext, writes, base_columns,
          base_column_counts, new_df, new_columns, new_column_counts,
          missing_instances, unique_columns, ui, standardized_df,
          built_columns, printed, raised, steps,
          nm_pc, nm_name, nm_once, nm_twice>>

runVars == <<pc, base_file, new_file, new_ext, writes, base_columns,
             base_column_counts, new_df, new_columns, new_column_counts,
             missing_instances, unique_columns, ui, standardized_df,
             built_columns, printed, raised, steps>>

nmVars == <<nm_pc, nm_name, nm_once, nm_twice>>

----------------------------------------------------------------------------
(* Bounds *)

MaxCols == 3
MaxRows == 1
MaxLen == 5

----------------------------------------------------------------------------
(* Values *)

Range(s) == {s[i] : i \in DOMAIN s}

NaN == <<0, 0>>

LabelA == <<"A">>
LabelB == <<"B">>
LabelB1 == <<"B", ".", "1">>
LabelBu1 == <<"B", "_", "1">>

\* the names a base header and a new header are made of
BasePool == {LabelA, LabelB, LabelB1, LabelBu1}

NewPool == {LabelA, LabelB, LabelB1}

Chars == {"F", ".", "1", "2", "_", "\n"}

Digits == {"0", "1", "2", "3", "4", "5", "6", "7", "8", "9"}

\* the extensions of the paths given: one supported, one not
Exts == {".xlsx", ".txt"}

RECURSIVE SeqsUpTo(_, _)
SeqsUpTo(S, n) ==
    IF n = 0 THEN {<<>>}
    ELSE LET shorter == SeqsUpTo(S, n - 1)
         IN shorter \cup {Append(s, x) : s \in {t \in shorter : Len(t) = n - 1}, x \in S}

\* the header rows of a file: names may repeat
BaseHeaders == SeqsUpTo(BasePool, MaxCols)

NewHeaders == SeqsUpTo(NewPool, MaxCols)

EmptyFrame == [index |-> 0, columns |-> <<>>, data |-> <<>>]

\* a file with the given header and rows; cell <<j, r>> is column j, row r;
\* opened counts the times the file was opened for writing
FileOf(header, nrows) ==
    [header |-> header, nrows |-> nrows,
     data |-> [j \in DOMAIN header |-> [r \in 1..nrows |-> <<j, r>>]],
     opened |-> 0]

\* str(n) for n >= 0
RECURSIVE Str(_)
Str(n) ==
    LET d == <<"0", "1", "2", "3", "4", "5", "6", "7", "8", "9">>
    IN IF n < 10 THEN <<d[n + 1]>> ELSE Str(n \div 10) \o <<d[(n % 10) + 1]>>

\* counts.get(key, 0) and counts[key] = v on a dict
CountGet(counts, key) == IF key \in DOMAIN counts THEN counts[key] ELSE 0

CountPut(counts, key, v) ==
    [x \in DOMAIN counts \cup {key} |-> IF x = key THEN v ELSE counts[x]]

\* the reader's renaming of one repeated header name old, seen cur times:
\* old.cur, old.cur+1, ... until the label is not in the header
RECURSIVE DedupOne(_, _, _, _)
DedupOne(old, cur, cols, counts) ==
    LET counts1 == CountPut(counts, old, cur + 1)
        col == old \o <<".">> \o Str(cur)
    IN IF col \in Range(cols) THEN DedupOne(old, cur + 1, cols, counts1)
       ELSE IF CountGet(counts1, col) > 0
            THEN DedupOne(old, CountGet(counts1, col), cols, counts1)
            ELSE [col |-> col, counts |-> counts1]

\* the labels pd.read_csv / pd.read_excel return for a header row
DedupNames(header) ==
    LET F[i \in 0..Len(header)] ==
            IF i = 0 THEN [cols |-> header, counts |-> <<>>]
            ELSE LET st == F[i - 1]
                     old == st.cols[i]
                     cur == CountGet(st.counts, old)
                     r == IF cur > 0 THEN DedupOne(old, cur, st.cols, st.counts)
                          ELSE [col |-> old, counts |-> st.counts]
                 IN [cols |-> [st.cols EXCEPT ![i] = r.col],
                     counts |-> CountPut(r.counts, r.col, 1)]
    IN F[Len(header)].cols

\* the frame the reader returns for a file
FrameOf(file) ==
    [index |-> file.nrows, columns |-> DedupNames(file.header), data |-> file.data]

----------------------------------------------------------------------------
(* read_file / save_file: the extension decides the reader and the writer *)

\* os.path.splitext(file_path)[1].lower() in ('.csv', '.xlsx')
SupportedFormat(ext) == ext \in {".csv", ".xlsx"}

\* read_file: "ok" with the parsed frame, or the exception raised
read_file(file, ext, io) ==
    IF ~SupportedFormat(ext) THEN [exc |-> "ValueError", df |-> EmptyFrame]
    ELSE IF io # "ok" THEN [exc |-> io, df |-> EmptyFrame]
    ELSE [exc |-> "ok", df |-> FrameOf(file)]

\* the file as df.to_csv / df.to_excel(index=False) write it over file: the
\* labels and the rows of df, no index column
Written(df, file) ==
    [header |-> df.columns, nrows |-> df.index, data |-> df.data,
     opened |-> file.opened + 1]

\* what a write that raises can leave of the file it writes in place: the
\* file as it was (the error came on opening it), an empty file (it was
\* opened, which truncates it), or the header without the rows
LeftByFailedWrite(df, file) ==
    {file,
     [header |-> <<>>, nrows |-> 0, data |-> <<>>, opened |-> file.opened + 1],
     [header |-> df.columns, nrows |-> 0,
      data |-> [j \in DOMAIN df.columns |-> <<>>], opened |-> file.opened + 1]}

\* save_file: the exception raised, and the file as it is left on disk.
\* PermissionError is raised on opening the file; left is what another
\* error leaves of it.
save_file(df, file, ext, io, left) ==
    IF ~SupportedFormat(ext) THEN [exc |-> "ValueError", file |-> file]
    ELSE IF io = "PermissionError" THEN [exc |-> io, file |-> file]
    ELSE IF io # "ok" THEN [exc |-> io, file |-> left]
    ELSE [exc |-> "ok", file |-> Written(df, file)]

----------------------------------------------------------------------------
(* remove_column_numbering: re.sub(r'\.\d+$', '', col) on every label *)

\* the positions e such that "$" matches after the first e characters:
\* the end of the string, and just before a newline that ends the string
DollarEnds(s) ==
    {Len(s)} \cup (IF Len(s) > 0 /\ s[Len(s)] = "\n" THEN {Len(s) - 1} ELSE {})

\* <<i, e>>: s[i] is the dot, s[i+1..e] are one or more digits, "$" matches at e
NumberingMatches(s) ==
    {m \in (1..Len(s)) \X (1..Len(s)) :
        /\ s[m[1]] = "."
        /\ m[1] + 1 <= m[2]
        /\ \A j \in (m[1] + 1)..m[2] : s[j] \in Digits
        /\ m[2] \in DollarEnds(s)}

\* a variant that takes "_<digits>" for numbering too: r'[._]\d+$'
RemoveNumbering_Underscore(s) ==
    LET ms == {m \in (1..Len(s)) \X (1..Len(s)) :
                  /\ s[m[1]] \in {".", "_"}
                  /\ m[1] + 1 <= m[2]
                  /\ \A j \in (m[1] + 1)..m[2] : s[j] \in Digits
                  /\ m[2] \in DollarEnds(s)}
    IN IF ms = {} THEN s
       ELSE LET m == CHOOSE x \in ms : \A y \in ms : x[1] <= y[1]
            IN SubSeq(s, 1, m[1] - 1) \o SubSeq(s, m[2] + 1, Len(s))

\* re.sub replaces the leftmost match (no second match can follow it)
RemoveNumbering(s) ==
    LET ms == NumberingMatches(s)
    IN IF ms = {} THEN s
       ELSE LET m == CHOOSE x \in ms : \A y \in ms : x[1] <= y[1]
            IN SubSeq(s, 1, m[1] - 1) \o SubSeq(s, m[2] + 1, Len(s))

\* a variant that renames through a mapping keyed by the new label, keeping
\* one column per new label
remove_column_numbering_Merge(df) ==
    LET renamed == [i \in DOMAIN df.columns |-> RemoveNumbering(df.columns[i])]
        keep == {i \in DOMAIN renamed : \A j \in 1..(i - 1) : renamed[j] # renamed[i]}
        F[i \in 0..Len(renamed)] ==
            IF i = 0 THEN [columns |-> <<>>, data |-> <<>>]
            ELSE IF i \in keep
                 THEN [columns |-> Append(F[i - 1].columns, renamed[i]),
                       data |-> Append(F[i - 1].data, df.data[i])]
                 ELSE F[i - 1]
    IN [index |-> df.index,
        columns |-> F[Len(renamed)].columns,
        data |-> F[Len(renamed)].data]

\* df.columns = [column_mapping[col] for col in df.columns]; the data stay
remove_column_numbering(df) ==
    [df EXCEPT !.columns = [i \in DOMAIN df.columns |-> RemoveNumbering(df.columns[i])]]

----------------------------------------------------------------------------
(* the counting and reshaping steps of standardize_data *)

\* for col in columns: counts[col] = counts.get(col, 0) + 1
CountInstances(columns) ==
    [n \in Range(columns) |-> Cardinality({i \in DOMAIN columns : columns[i] = n})]

\* the labels in the order of their first occurrence (also the order of a
\* dict's items)
UniqueColumns(columns) ==
    LET F[i \in 0..Len(columns)] ==
            IF i = 0 THEN <<>>
            ELSE IF columns[i] \in Range(F[i - 1]) THEN F[i - 1]
            ELSE Append(F[i - 1], columns[i])
    IN F[Len(columns)]

\* col not in new_column_counts or new_column_counts[col] < count
Insufficient(counts, col, count) ==
    col \notin DOMAIN counts \/ counts[col] < count

\* the list built by the loop over base_column_counts.items()
MissingInstances(bcounts, order, ncounts) ==
    LET F[i \in 0..Len(order)] ==
            IF i = 0 THEN <<>>
            ELSE IF Insufficient(ncounts, order[i], bcounts[order[i]])
                 THEN Append(F[i - 1],
                             <<order[i], bcounts[order[i]], CountGet(ncounts, order[i])>>)
                 ELSE F[i - 1]
    IN F[Len(order)]

\* f"{col}_{i+1}", given the instance number i+1
SuffixedName(col, inst) == col \o <<"_">> \o Str(inst)

\* [c for c in new_columns if c == col]
NewColInstances(columns, col) == SelectSeq(columns, LAMBDA c : c = col)

\* the positions of the columns of df labelled label
Positions(df, label) == {j \in DOMAIN df.columns : df.columns[j] = label}

\* new_df[label]: the Series of the one column with that label
GetItem(df, label) == df.data[CHOOSE j \in Positions(df, label) : TRUE]

\* pd.Series(dtype='object'): no rows
EmptySeries == <<>>

\* standardized_df[key] = value, value a Series on a RangeIndex
SetItem(df, key, value) ==
    LET grow == df.index = 0 /\ Len(value) > 0
        idx == IF grow THEN Len(value) ELSE df.index
        old == IF grow THEN [c \in DOMAIN df.data |-> [r \in 1..idx |-> NaN]]
               ELSE df.data
        aligned == [r \in 1..idx |-> IF r <= Len(value) THEN value[r] ELSE NaN]
    IN IF key \in Range(df.columns)
       THEN [index |-> idx, columns |-> df.columns,
             data |-> [c \in DOMAIN old |->
                          IF df.columns[c] = key THEN aligned ELSE old[c]]]
       ELSE [index |-> idx, columns |-> Append(df.columns, key),
             data |-> Append(old, aligned)]

\* the value assigned for instance i (0-based) of col
InstanceValue(ndf, instances, i) ==
    IF i < Len(instances) THEN GetItem(ndf, instances[i + 1]) ELSE EmptySeries

\* for i in range(required_count): standardized_df[f"{col}_{i+1}"] = ...
RECURSIVE AddInstances(_, _, _, _, _, _)
AddInstances(df, ndf, col, instances, i, required_count) ==
    IF i >= required_count THEN df
    ELSE AddInstances(SetItem(df, SuffixedName(col, i + 1),
                              InstanceValue(ndf, instances, i)),
                      ndf, col, instances, i + 1, required_count)

\* the body of "for col in unique_columns" for one col
ProcessOne(df, ndf, ncols, col, required_count) ==
    LET new_col_instances == NewColInstances(ncols, col)
    IN IF required_count = 1
       THEN SetItem(df, col, InstanceValue(ndf, new_col_instances, 0))
       ELSE AddInstances(df, ndf, col, new_col_instances, 0, required_count)

\* new_df[label] is a DataFrame, and the assignment raises, when the label
\* is repeated in new_df and the body selects it
SelectionRaises(ndf, ncols, col) ==
    Len(NewColInstances(ncols, col)) > 0 /\ Cardinality(Positions(ndf, col)) > 1

\* a variant that prints and raises again
ExceptException_Reraise(out, exc) ==
    [printed |-> Append(out, "An error occurred"), raised |-> TRUE]

\* except Exception as e: print(...); nothing is raised again
ExceptException(out, exc) ==
    [printed |-> Append(out, "An error occurred"), raised |-> FALSE]

\* except PermissionError: print(...); return
ExceptPermissionError(out) ==
    [printed |-> Append(out, "ERROR: Could not save the file"), raised |-> FALSE]

----------------------------------------------------------------------------
(* standardize_data, step by step *)

PipelineOrder == <<"load base", "load target", "reconcile", "normalize", "save">>

IoOutcomes == {"ok", "OSError"}

SaveOutcomes == {"ok", "PermissionError", "OSError"}

\* the state of a run before its first step; the code never looks at the
\* rows of the base file, so the base file is modelled without rows
InitRun(bcols, ncols, nrows) ==
    /\ pc = "read_base"
    /\ base_file = FileOf(bcols, 0)
    /\ new_file = FileOf(ncols, nrows)
    /\ new_ext = ""
    /\ writes = 0
    /\ base_columns = <<>>
    /\ base_column_counts = <<>>
    /\ new_df = EmptyFrame
    /\ new_columns = <<>>
    /\ new_column_counts = <<>>
    /\ missing_instances = <<>>
    /\ unique_columns = <<>>
    /\ ui = 0
    /\ standardized_df = EmptyFrame
    /\ built_columns = <<>>
    /\ printed = <<>>
    /\ raised = FALSE
    /\ steps = <<>>

Init ==
    /\ \E bcols \in BaseHeaders, ncols \in NewHeaders, nrows \in {0, MaxRows} :
          /\ ncols = <<>> => nrows = 0
          /\ InitRun(bcols, ncols, nrows)
    /\ nm_pc = "off"
    /\ nm_name = <<>>
    /\ nm_once = <<>>
    /\ nm_twice = <<>>

\* the outer "except Exception" ends the run
Fail(exc) ==
    LET h == ExceptException(printed, exc)
    IN /\ printed' = h.printed
       /\ raised' = h.raised
       /\ pc' = "done"

\* lines 77-83: read the base file and count its labels
ReadBase ==
    /\ pc = "read_base"
    /\ steps' = Append(steps, "load base")
    /\ \E ext \in Exts, io \in IoOutcomes :
          LET r == read_file(base_file, ext, io)
          IN IF r.exc # "ok"
             THEN /\ Fail(r.exc)
                  /\ UNCHANGED <<base_columns, base_column_counts>>
             ELSE /\ base_columns' = r.df.columns
                  /\ base_column_counts' = CountInstances(r.df.columns)
                  /\ pc' = "read_new"
                  /\ UNCHANGED <<printed, raised>>
    /\ UNCHANGED <<base_file, new_file, new_ext, writes, new_df, new_columns,
                   new_column_counts, missing_instances, unique_columns, ui,
                   standardized_df, built_columns, nmVars>>

\* lines 86-92: read the new file and count its labels
ReadNew ==
    /\ pc = "read_new"
    /\ steps' = Append(steps, "load target")
    /\ \E ext \in Exts, io \in IoOutcomes :
          LET r == read_file(new_file, ext, io)
          IN /\ new_ext' = ext
             /\ IF r.exc # "ok"
                THEN /\ Fail(r.exc)
                     /\ UNCHANGED <<new_df, new_columns, new_column_counts>>
                ELSE /\ new_df' = r.df
                     /\ new_columns' = r.df.columns
                     /\ new_column_counts' = CountInstances(r.df.columns)
                     /\ pc' = "check"
                     /\ UNCHANGED <<printed, raised>>
    /\ UNCHANGED <<base_file, new_file, writes, base_columns, base_column_counts,
                   missing_instances, unique_columns, ui, standardized_df,
                   built_columns, nmVars>>

\* lines 95-104: list the labels the new file is short of, and warn
CheckInstances ==
    /\ pc = "check"
    /\ steps' = Append(steps, "reconcile")
    /\ missing_instances' = MissingInstances(base_column_counts,
                                             UniqueColumns(base_columns),
                                             new_column_counts)
    /\ printed' = IF missing_instances' # <<>>
                  THEN Append(printed, "WARNING: insufficient instances")
                  ELSE printed
    /\ pc' = "prepare"
    /\ UNCHANGED <<base_file, new_file, new_ext, writes, base_columns,
                   base_column_counts, new_df, new_columns, new_column_counts,
                   unique_columns, ui, standardized_df, built_columns, raised,
                   nmVars>>

\* lines 107-116: the empty frame and the unique base labels
PrepareColumns ==
    /\ pc = "prepare"
    /\ standardized_df' = EmptyFrame
    /\ unique_columns' = UniqueColumns(base_columns)
    /\ ui' = 1
    /\ pc' = "build"
    /\ UNCHANGED <<base_file, new_file, new_ext, writes, base_columns,
                   base_column_counts, new_df, new_columns, new_column_counts,
                   missing_instances, built_columns, printed, raised, steps,
                   nmVars>>

\* lines 119-138: one iteration of "for col in unique_columns"
ProcessColumn ==
    /\ pc = "build"
    /\ ui <= Len(unique_columns)
    /\ LET col == unique_columns[ui]
       IN IF SelectionRaises(new_df, new_columns, col)
          THEN /\ Fail("ValueError")
               /\ UNCHANGED <<standardized_df, ui>>
          ELSE /\ standardized_df' = ProcessOne(standardized_df, new_df, new_columns,
                                                col, base_column_counts[col])
               /\ ui' = ui + 1
               /\ UNCHANGED <<pc, printed, raised>>
    /\ UNCHANGED <<base_file, new_file, new_ext, writes, base_columns,
                   base_column_counts, new_df, new_columns, new_column_counts,
                   missing_instances, unique_columns, built_columns, steps,
                   nmVars>>

\* line 141: standardized_df = remove_column_numbering(standardized_df)
Normalize ==
    /\ pc = "build"
    /\ ui > Len(unique_columns)
    /\ steps' = Append(steps, "normalize")
    /\ built_columns' = standardized_df.columns
    /\ standardized_df' = remove_column_numbering(standardized_df)
    /\ pc' = "save"
    /\ UNCHANGED <<base_file, new_file, new_ext, writes, base_columns,
                   base_column_counts, new_df, new_columns, new_column_counts,
                   missing_instances, unique_columns, ui, printed, raised,
                   nmVars>>

\* lines 143-157: save over the new file; PermissionError is caught here,
\* any other exception by the outer handler
Save ==
    /\ pc = "save"
    /\ steps' = Append(steps, "save")
    /\ \E io \in SaveOutcomes, left \in LeftByFailedWrite(standardized_df, new_file) :
          LET r == save_file(standardized_df, new_file, new_ext, io, left)
          IN /\ new_file' = r.file
             /\ IF r.exc = "ok"
                THEN /\ writes' = writes + 1
                     /\ printed' = Append(printed, "standardized successfully")
                     /\ raised' = FALSE
                     /\ pc' = "done"
                ELSE IF r.exc = "PermissionError"
                THEN LET h == ExceptPermissionError(printed)
                     IN /\ printed' = h.printed
                        /\ raised' = h.raised
                        /\ pc' = "done"
                        /\ UNCHANGED writes
                ELSE /\ Fail(r.exc)
                     /\ UNCHANGED writes
    /\ UNCHANGED <<base_file, new_ext, base_columns, base_column_counts, new_df,
                   new_columns, new_column_counts, missing_instances,
                   unique_columns, ui, standardized_df, built_columns, nmVars>>

Next ==
    \/ ReadBase
    \/ ReadNew
    \/ CheckInstances
    \/ PrepareColumns
    \/ ProcessColumn
    \/ Normalize
    \/ Save

Spec == Init /\ [][Next]_vars

----------------------------------------------------------------------------
(* remove_column_numbering on one label, applied once and once more *)

Labels == SeqsUpTo(Chars, MaxLen)

InitNorm ==
    /\ InitRun(<<LabelA>>, <<LabelA>>, 0)
    /\ nm_pc = "start"
    /\ nm_name \in Labels
    /\ nm_once = <<>>
    /\ nm_twice = <<>>

NormOnce ==
    /\ nm_pc = "start"
    /\ nm_once' = remove_column_numbering(
                      [index |-> 0, columns |-> <<nm_name>>, data |-> <<EmptySeries>>]).columns[1]
    /\ nm_pc' = "once"
    /\ UNCHANGED <<nm_name, nm_twice, runVars>>

NormTwice ==
    /\ nm_pc = "once"
    /\ nm_twice' = remove_column_numbering(
                       [index |-> 0, columns |-> <<nm_once>>, data |-> <<EmptySeries>>]).columns[1]
    /\ nm_pc' = "twice"
    /\ UNCHANGED <<nm_name, nm_once, runVars>>

NextNorm ==
    \/ NormOnce
    \/ NormTwice

SpecNorm == InitNorm /\ [][NextNorm]_vars

----------------------------------------------------------------------------
(* Vocabulary of the properties: the tables as the files hold them *)

\* the number of columns of a header named n
InstanceCount(header, n) == Cardinality({p \in DOMAIN header : header[p] = n})

\* the position of the i-th column of a header named n (i from 1)
NthInstance(header, n, i) ==
    CHOOSE p \in DOMAIN header :
        /\ header[p] = n
        /\ Cardinality({q \in 1..p : header[q] = n}) = i

\* the names of a header, each once, in the order of their first occurrence
FirstOccurrences(header) ==
    LET F[i \in 0..Len(header)] ==
            IF i = 0 THEN <<>>
            ELSE IF \E q \in 1..(i - 1) : header[q] = header[i] THEN F[i - 1]
            ELSE F[i - 1] \o <<header[i]>>
    IN F[Len(header)]

RECURSIVE Flatten(_)
Flatten(ss) == IF ss = <<>> THEN <<>> ELSE Head(ss) \o Flatten(Tail(ss))

\* the names of a header grouped: the k instances of a name side by side
Grouped(header) ==
    LET u == FirstOccurrences(header)
    IN Flatten([g \in DOMAIN u |->
                   [i \in 1..InstanceCount(header, u[g]) |-> u[g]]])

\* the grouped names with the positional suffix of a repeated name
GroupedSuffixed(header) ==
    LET u == FirstOccurrences(header)
    IN Flatten([g \in DOMAIN u |->
                   IF InstanceCount(header, u[g]) = 1 THEN <<u[g]>>
                   ELSE [i \in 1..InstanceCount(header, u[g]) |->
                            u[g] \o <<"_">> \o Str(i)]])

\* a name ends in ".<digits>"
EndsInDotDigits(s) ==
    \E i \in 1..(Len(s) - 1) :
        s[i] = "." /\ \A j \in (i + 1)..Len(s) : s[j] \in Digits

\* the name without its one trailing ".<digits>"
StripDotDigits(s) ==
    IF EndsInDotDigits(s)
    THEN LET i == CHOOSE i \in 1..(Len(s) - 1) :
                      s[i] = "." /\ \A j \in (i + 1)..Len(s) : s[j] \in Digits
         IN SubSeq(s, 1, i - 1)
    ELSE s

\* no name of the header holds a dot
DotFree(header) == \A p \in DOMAIN header : "." \notin Range(header[p])

\* the frame is built and renamed, the new file not yet overwritten
Built == pc = "save"

\* the run got as far as the renaming
Renamed == pc \in {"save", "done"} /\ "normalize" \in Range(steps)

AllNaN(column) == \A r \in DOMAIN column : column[r] = NaN

----------------------------------------------------------------------------
(* C1 *)

\* the labels the reader gave to the columns of the base file named n
ReaderLabels(n) ==
    {base_columns[q] : q \in {q \in DOMAIN base_file.header : base_file.header[q] = n}}

\* C1: a name that occurs k times in the base file contributes exactly k
\* columns to the frame standardize_data builds, so the output has as many
\* columns as base; remove_column_numbering keeps every column, also when
\* it makes two labels equal, and so does the saved file.
C1_EveryBaseColumnKept ==
    Renamed =>
        /\ Len(built_columns) = Len(base_file.header)
        /\ \A n \in Range(base_file.header) :
              Cardinality({p \in DOMAIN built_columns :
                              built_columns[p] \in ReaderLabels(n)})
                  = InstanceCount(base_file.header, n)
        /\ Len(standardized_df.columns) = Len(base_file.header)
        /\ Len(standardized_df.data) = Len(base_file.header)
        /\ (writes = 1 =>
               /\ Len(new_file.header) = Len(base_file.header)
               /\ Len(new_file.data) = Len(base_file.header))

\* a base with a repeated name "B" and a separate "B_1": three columns are
\* saved, two of them with the same name
C1_Witness ==
    /\ pc = "done"
    /\ writes = 1
    /\ base_file.header = <<LabelB, LabelB, LabelBu1>>
    /\ new_file.header = <<LabelB, LabelB, LabelBu1>>

----------------------------------------------------------------------------
(* C2 *)

\* C2: instance matching is positional: for a base name with k columns and
\* i <= k, if the new file has at least i columns of that name, the output
\* column of the i-th instance of that name (the output column at the
\* place of base's i-th column of that name) holds the cells of the i-th
\* column of that name of the new file.
C2_PositionalMatching ==
    Built =>
        \A n \in Range(base_file.header) :
            \A i \in 1..InstanceCount(base_file.header, n) :
                i <= InstanceCount(new_file.header, n)
                => standardized_df.data[NthInstance(base_file.header, n, i)]
                       = new_file.data[NthInstance(new_file.header, n, i)]

----------------------------------------------------------------------------
(* C3 *)

\* C3: the output's column order is that of base's names in the order of
\* their first occurrence, the instances of one name side by side (stated
\* for headers without dotted names, where the output names are base's).
C3_GroupedOrder ==
    (Built /\ DotFree(base_file.header))
        => standardized_df.columns = Grouped(base_file.header)

----------------------------------------------------------------------------
(* C4 *)

\* C4: every output column has exactly the row count of the new file, and
\* the columns of the instances the new file lacks are empty in every row
\* (stated for headers without dotted names).
C4_PaddingRowCount ==
    (Built /\ DotFree(base_file.header) /\ DotFree(new_file.header))
        => /\ \A p \in DOMAIN standardized_df.data :
                 Len(standardized_df.data[p]) = new_file.nrows
           /\ \A n \in Range(base_file.header) :
                 \A i \in (InstanceCount(new_file.header, n) + 1)
                            ..InstanceCount(base_file.header, n) :
                     AllNaN(standardized_df.data[
                                NthInstance(standardized_df.columns, n, i)])

----------------------------------------------------------------------------
(* C5 *)

\* the shortages of the new file against base: (name, required, actual)
Shortages(base, new) ==
    {<<n, InstanceCount(base, n), InstanceCount(new, n)>> :
        n \in {m \in Range(base) : InstanceCount(new, m) < InstanceCount(base, m)}}

\* C5: a shortage (name, required, actual) is recorded, once, for exactly
\* the base names of which the new file has fewer columns than base
\* (stated for headers without dotted names), and a run that recorded
\* shortages still goes on to the save.
C5_Shortages ==
    /\ (pc \in {"prepare", "build", "save"}
        /\ DotFree(base_file.header) /\ DotFree(new_file.header))
        => /\ Range(missing_instances) = Shortages(base_file.header, new_file.header)
           /\ Len(missing_instances)
                 = Cardinality(Shortages(base_file.header, new_file.header))
    /\ (pc = "done" /\ missing_instances # <<>>) => "save" \in Range(steps)

----------------------------------------------------------------------------
(* C6 *)

\* C6: a base name with one column gives an output column with the bare
\* name, a base name with k > 1 columns gives name_1 .. name_k, before and
\* after remove_column_numbering (stated for headers without dotted names).
C6_Naming ==
    (Built /\ DotFree(base_file.header))
        => /\ built_columns = GroupedSuffixed(base_file.header)
           /\ standardized_df.columns = GroupedSuffixed(base_file.header)

----------------------------------------------------------------------------
(* C7 *)

\* C7: when base has a repeated name, the final output names are the bare
\* base names in base order: base's names as they are, or each without its
\* trailing ".<digits>".
C7_BareBaseNames ==
    (Built /\ \E n \in Range(base_file.header) : InstanceCount(base_file.header, n) > 1)
        => \/ standardized_df.columns = base_file.header
           \/ standardized_df.columns
                 = [p \in DOMAIN base_file.header |-> StripDotDigits(base_file.header[p])]

----------------------------------------------------------------------------
(* C8 *)

\* C8: the normalizer removes exactly one ".<digits>" at the very end of a
\* label and nothing else.
C8_StripsOneTrailingGroup ==
    nm_pc \in {"once", "twice"} => nm_once = StripDotDigits(nm_name)

----------------------------------------------------------------------------
(* C9 *)

\* a label ends in ".<digits>", or in ".<digits>" and one final newline
StillNumbered(s) ==
    \/ EndsInDotDigits(s)
    \/ Len(s) > 0 /\ s[Len(s)] = "\n" /\ EndsInDotDigits(SubSeq(s, 1, Len(s) - 1))

\* C9 as stated: normalizing a normalized label returns it unchanged.
C9_Idempotent ==
    nm_pc = "twice" => nm_twice = nm_once

\* C9 amended: normalizing a normalized label returns it unchanged exactly
\* when the normalized label no longer ends in ".<digits>" (at its end or
\* before one final newline); a label with two such groups loses one per
\* application.
C9_IdempotentUnlessStillNumbered ==
    nm_pc = "twice" => (nm_twice = nm_once <=> ~StillNumbered(nm_once))

\* "F.1" is normalized to "F", and "F" to "F"
C9_Witness ==
    /\ nm_pc = "twice"
    /\ nm_name = <<"F", ".", "1">>
    /\ nm_once = <<"F">>
    /\ nm_twice = <<"F">>

----------------------------------------------------------------------------
(* C10 *)

IsPrefix(s, t) == Len(s) <= Len(t) /\ \A i \in DOMAIN s : s[i] = t[i]

ErrorMessages == {"An error occurred", "ERROR: Could not save the file"}

Failed == pc = "done" /\ writes = 0

\* the new file was never opened for writing
Unwritten == new_file.opened = 0

\* the order of the steps, the single write, and the handling of a failure
\* but for what it leaves of the new file
RunsOnceAndCatches ==
    /\ IsPrefix(steps, PipelineOrder)
    /\ writes <= 1
    /\ new_file.opened <= 1
    /\ writes = 1 => (/\ steps = PipelineOrder
                      /\ pc = "done"
                      /\ Range(printed) \cap ErrorMessages = {})
    /\ raised = FALSE
    /\ pc # "done" => Unwritten /\ Range(printed) \cap ErrorMessages = {}
    /\ Failed => printed # <<>> /\ printed[Len(printed)] \in ErrorMessages

\* C10 as stated: the steps run in the order load base, load target,
\* reconcile, normalize, save, each at most once; the new file is written at
\* most once, and only by a run that went through every step; a failure at
\* any step ends the run with a printed message, is not raised to the
\* caller, and leaves the new file unwritten.
C10_PipelineAndFailures ==
    /\ RunsOnceAndCatches
    /\ Failed => Unwritten

\* C10 amended: as stated, except that the new file is sure to be left
\* unwritten only by a failure before the save and by a permission failure
\* of the save; another error of the save, raised by a writer that writes
\* the file in place, can leave it emptied or partly written.
C10_UnwrittenUnlessTheWriteFails ==
    /\ RunsOnceAndCatches
    /\ (Failed /\ steps # PipelineOrder) => Unwritten
    /\ (Failed /\ printed[Len(printed)] = "ERROR: Could not save the file")
          => Unwritten

\* a run that failed at the save for want of permission: a message is
\* printed and the file is as it was
C10_Witness ==
    /\ Failed
    /\ steps = PipelineOrder
    /\ printed[Len(printed)] = "ERROR: Could not save the file"
    /\ new_file = FileOf(new_file.header, new_file.nrows)

====
